---- MODULE Spec2Model ----
(***************************************************************************)
(* Model of the Delta Table Optimizer query profiler                       *)
(* (DeltaTableOptimizer/v002/Step 1 - Build Query History Profile.py).     *)
(*                                                                         *)
(* Strings are sequences of one-character strings, so that rindex, find,   *)
(* split and the "table:column" formatting are computed as the code        *)
(* computes them.  Python's None for a table part is the empty sequence    *)
(* (the code folds "" into None with `or None`).  SQL NULL is the string   *)
(* "NULL" for a query_id and the fraction with denominator 0 for a number. *)
(***************************************************************************)
EXTENDS Integers, Sequences, FiniteSets

VARIABLES
    now,        \* the time, in whole time units
    tz,         \* offset of the driver's local time from UTC, in time units
    upstream,   \* the query-history service: execution id -> start time
    raw,        \* raw_query_history_statistics: execution id -> number of stored copies
    log,        \* query_history_log: sequence of [StartTimestamp, EndTimestamp] in Id order
    stats,      \* query_summary_statistics
    parsed,     \* parsed_distinct_queries: set of [Id, query_id, query_text, profiled_columns]
    colstats,   \* query_column_statistics
    summary,    \* read_statistics_column_level_summary
    scaled,     \* read_statistics_scaled_results
    pc,         \* position of build_query_history_profile
    run,        \* locals of the run in progress: mode, window, fetched batch
    pre,        \* what the published tables and the upstream were when the run began
    nruns,      \* number of runs started
    sql,        \* extractor harness: the parser result under test
    out         \* extractor harness: the extractor's and the flag UDFs' results

vars == <<now, tz, upstream, raw, log, stats, parsed, colstats, summary, scaled,
          pc, run, pre, nruns, sql, out>>

pipeVars == <<now, tz, upstream, raw, log, stats, parsed, colstats, summary, scaled,
              pc, run, pre, nruns>>

unitVars == <<sql, out>>

----------------------------------------------------------------------------
(* Bounds of the model *)

\* number of executions the warehouse performs
MaxExec == 7
\* number of runs of build_query_history_profile
MaxRuns == 2
\* number of tokens in one clause of a harness statement
MaxTokens == 1

\* lookback_period_days (line 243), in time units
LookbackPeriod == 3

----------------------------------------------------------------------------
(* Strings *)

Max(S) == CHOOSE x \in S : \A y \in S : y <= x

Min(S) == CHOOSE x \in S : \A y \in S : x <= y

\* s.find(sub): 0-based index of the first occurrence, -1 when absent
Find(s, sub) ==
    LET hits == {i \in 0..(Len(s) - Len(sub)) : SubSeq(s, i + 1, i + Len(sub)) = sub}
    IN  IF hits = {} THEN -1 ELSE Min(hits)

\* st.rindex('.') as a 1-based position; 0 stands for the ValueError
RIndexDot(st) ==
    LET hits == {i \in 1..Len(st) : st[i] = "."}
    IN  IF hits = {} THEN 0 ELSE Max(hits)

\* lines 106-109
ColumnVal(st) ==
    IF RIndexDot(st) = 0 THEN st ELSE SubSeq(st, RIndexDot(st) + 1, Len(st))

\* lines 112-115: the empty sequence is None
TableVal(st) ==
    IF RIndexDot(st) = 0 THEN <<>> ELSE SubSeq(st, 1, RIndexDot(st) - 1)

\* f"{tbl}:{column_val}"
Format(tbl, col) == tbl \o <<":">> \o col

\* positions of ":" in s
Colons(s) == {i \in 1..Len(s) : s[i] = ":"}

\* split(s, ":")[0]
Piece0(s) ==
    IF Colons(s) = {} THEN s ELSE SubSeq(s, 1, Min(Colons(s)) - 1)

\* split(s, ":")[1]; the model's strings all hold a ":"
Piece1(s) ==
    LET c1   == Min(Colons(s))
        rest == {i \in Colons(s) : i > c1}
    IN  IF rest = {} THEN SubSeq(s, c1 + 1, Len(s))
        ELSE SubSeq(s, c1 + 1, Min(rest) - 1)

\* number of matches split(text, pat) cuts at, scanning left to right from
\* position i; an empty pattern cuts between all characters
RECURSIVE Matches(_, _, _)
Matches(text, pat, i) ==
    IF pat = <<>> THEN Len(text)
    ELSE IF i + Len(pat) - 1 > Len(text) THEN 0
    ELSE IF SubSeq(text, i, i + Len(pat) - 1) = pat
         THEN 1 + Matches(text, pat, i + Len(pat))
         ELSE Matches(text, pat, i + 1)

\* size(split(query_text, ColumnName)) - 2, held at 0
OccurrencesLessOne(text, col) == Max({0, Matches(text, col, 1) - 1})

\* size(split(query_text, ColumnName)) - 1
NumberOfColumnOccurrences(text, col) == Matches(text, col, 1)

----------------------------------------------------------------------------
(* sql_metadata.Parser: what the library reports for a statement.           *)
(* outcome "raise": Parser raises; "nodict": tables are found but           *)
(* columns_dict cannot be read; "ok": tables and columns_dict are there.    *)
(* A clause of columns_dict is [present, cols]; present = FALSE is the None *)
(* that columns_dict.get returns for a clause the statement does not have.  *)

NoClause == [present |-> FALSE, cols |-> {}]

Clause(S) == [present |-> TRUE, cols |-> S]

ERROR == <<"E", "R", "R", "O", "R">>

\* line 118 with the test `> 0` for `>= 0`
AttributedToPastStart(tbl, st) == Find(st, tbl) > 0 \/ TableVal(st) = <<>>

\* line 118: the table name occurs in the token, or the token has no table part
AttributedTo(tbl, st) == Find(st, tbl) >= 0 \/ TableVal(st) = <<>>

\* lines 87-88: the tokens of the where, join and group_by clauses
FlattedFinalCols(p) ==
    IF p.outcome = "ok"
    THEN UNION {c.cols : c \in {x \in {p.where, p.join, p.group_by} : x.present}}
    ELSE {}

\* lines 67-125, on the parser's result p; the returned list as a set
getParsedFilteredColumnsinSQL(p) ==
    IF p.outcome = "raise"
    THEN {ERROR \o <<":", " ">> \o p.msg}
    ELSE (IF p.outcome = "nodict" THEN {Format(tbl, <<>>) : tbl \in p.tables} ELSE {})
         \cup
         {Format(x[1], ColumnVal(x[2])) :
            x \in {y \in p.tables \X FlattedFinalCols(p) :
                      /\ AttributedTo(y[1], y[2])
                      /\ Len(ColumnVal(y[2])) > 1}}

\* lines 127-168: columnName in results.columns_dict.get(clause), 0 on any exception
CheckIfColumn(p, clause, columnName) ==
    IF p.outcome = "ok" /\ clause.present /\ columnName \in clause.cols THEN 1 ELSE 0

checkIfJoinColumn(p, columnName) ==
    CheckIfColumn(p, IF p.outcome = "ok" THEN p.join ELSE NoClause, columnName)

checkIfFilterColumn(p, columnName) ==
    CheckIfColumn(p, IF p.outcome = "ok" THEN p.where ELSE NoClause, columnName)

checkIfGroupColumn(p, columnName) ==
    CheckIfColumn(p, IF p.outcome = "ok" THEN p.group_by ELSE NoClause, columnName)

\* F.concat(TableName, ".", ColumnName), lines 426-428
Qualified(tbl, col) == tbl \o <<".">> \o col

----------------------------------------------------------------------------
(* Numbers.  Spark's FLOAT/DOUBLE columns are exact fractions [n, d] in     *)
(* lowest terms with d > 0; d = 0 is SQL NULL.                              *)

RECURSIVE GCD(_, _)
GCD(a, b) == IF b = 0 THEN a ELSE GCD(b, a % b)

Abs(x) == IF x < 0 THEN -x ELSE x

FNull == [n |-> 0, d |-> 0]

IsNull(a) == a.d = 0

Frac(n, d) ==
    IF d = 0 THEN FNull
    ELSE LET g == GCD(Abs(n), Abs(d))
             s == IF d < 0 THEN -1 ELSE 1
         IN  [n |-> s * (n \div g), d |-> s * (d \div g)]

FInt(i) == [n |-> i, d |-> 1]

FAdd(a, b) == IF IsNull(a) \/ IsNull(b) THEN FNull ELSE Frac(a.n * b.d + b.n * a.d, a.d * b.d)

FSub(a, b) == IF IsNull(a) \/ IsNull(b) THEN FNull ELSE Frac(a.n * b.d - b.n * a.d, a.d * b.d)

FMul(a, b) == IF IsNull(a) \/ IsNull(b) THEN FNull ELSE Frac(a.n * b.n, a.d * b.d)

\* Spark's division: NULL for a zero divisor
FDiv(a, b) == IF IsNull(a) \/ IsNull(b) \/ b.n = 0 THEN FNull ELSE Frac(a.n * b.d, a.d * b.n)

\* a <= b, both not NULL
FLe(a, b) == a.n * b.d <= b.n * a.d

\* F.coalesce(a, F.lit(0))
Coalesce0(a) == IF IsNull(a) THEN FInt(0) ELSE a

NonNull(S) == {a \in S : ~IsNull(a)}

\* SQL min / max of a column: NULLs are skipped, NULL when nothing is left
FMin(S) ==
    IF NonNull(S) = {} THEN FNull
    ELSE CHOOSE a \in NonNull(S) : \A b \in NonNull(S) : FLe(a, b)

FMax(S) ==
    IF NonNull(S) = {} THEN FNull
    ELSE CHOOSE a \in NonNull(S) : \A b \in NonNull(S) : FLe(b, a)

\* SQL SUM(f) over the rows R: NULLs are skipped, NULL when nothing is left
RECURSIVE SumRows(_, _)
SumRows(R, f) ==
    IF R = {} THEN FInt(0)
    ELSE LET r == CHOOSE x \in R : TRUE
         IN  FAdd(Coalesce0(r[f]), SumRows(R \ {r}, f))

Present(R, f) == {r \in R : ~IsNull(r[f])}

SqlSum(R, f) == IF Present(R, f) = {} THEN FNull ELSE SumRows(Present(R, f), f)

\* SQL AVG(f) over the rows R
SqlAvg(R, f) ==
    IF Present(R, f) = {} THEN FNull
    ELSE FDiv(SumRows(Present(R, f), f), FInt(Cardinality(Present(R, f))))

\* SUM of an integer column that is never NULL
RECURSIVE SumInt(_, _)
SumInt(R, f) ==
    IF R = {} THEN 0
    ELSE LET r == CHOOSE x \in R : TRUE
         IN  r[f] + SumInt(R \ {r}, f)

----------------------------------------------------------------------------
(* The corpus: the statements the service can report, with what the parser  *)
(* makes of each.  A query_text is abbreviated to the identifiers it holds. *)

ta == <<"t", "a">>

tb == <<"t", "b">>

xx == <<"x", "x">>

yy == <<"y", "y">>

zz == <<"z", "z">>

\* two tables, an unqualified filter column, a qualified grouping column
Text1 == ta \o <<" ">> \o tb \o <<" ">> \o xx \o <<"=">> \o xx \o <<" ">> \o ta \o <<".">> \o yy

\* one table, two qualified filter columns, one of them also joined on
Text2 == ta \o <<" ">> \o ta \o <<".">> \o yy \o <<" ">> \o ta \o <<".">> \o zz \o <<"z">>

\* a statement the parser raises on
Text3 == <<"?", "?">>

\* a bare select: tables but no columns_dict
Text4 == <<"*", " ">> \o tb

Texts == {Text1, Text2, Text3, Text4}

\* Parser(sqlString)
Parser(text) ==
    CASE text = Text1 ->
           [outcome |-> "ok", tables |-> {ta, tb}, where |-> Clause({xx}),
            join |-> NoClause, group_by |-> Clause({Qualified(ta, yy)}), msg |-> <<>>]
      [] text = Text2 ->
           [outcome |-> "ok", tables |-> {ta},
            where |-> Clause({Qualified(ta, yy), Qualified(ta, zz)}),
            join |-> Clause({Qualified(ta, zz)}), group_by |-> NoClause, msg |-> <<>>]
      [] text = Text4 ->
           [outcome |-> "nodict", tables |-> {tb}, where |-> NoClause,
            join |-> NoClause, group_by |-> NoClause, msg |-> <<>>]
      [] OTHER ->
           [outcome |-> "raise", tables |-> {}, where |-> NoClause,
            join |-> NoClause, group_by |-> NoClause, msg |-> <<"n", "o">>]

\* The executions of the warehouse, in the order they happen (a Query Record
\* each, lines 345-357): two queries sharing a table, an unparsable one, one
\* that failed, a new text under a known query_id, a bare select, a statement
\* that is no SELECT, and further executions of the second query.
Exec ==
    [e \in 1..MaxExec |->
       CASE e = 1 -> [query_id |-> "q1", query_text |-> Text1, status |-> "FINISHED",
                      statement_type |-> "SELECT", duration |-> 4, rows_produced |-> 1]
         [] e = 2 -> [query_id |-> "q2", query_text |-> Text2, status |-> "FINISHED",
                      statement_type |-> "SELECT", duration |-> 1, rows_produced |-> 2]
         [] e = 3 -> [query_id |-> "q3", query_text |-> Text3, status |-> "CANCELED",
                      statement_type |-> "SELECT", duration |-> 2, rows_produced |-> 0]
         [] e = 4 -> [query_id |-> "q4", query_text |-> Text2, status |-> "FAILED",
                      statement_type |-> "SELECT", duration |-> 3, rows_produced |-> 0]
         [] e = 5 -> [query_id |-> "q1", query_text |-> Text2, status |-> "FINISHED",
                      statement_type |-> "SELECT", duration |-> 6, rows_produced |-> 1]
         [] e = 6 -> [query_id |-> "q5", query_text |-> Text4, status |-> "FINISHED",
                      statement_type |-> "SELECT", duration |-> 5, rows_produced |-> 3]
         [] e = 7 -> [query_id |-> "q6", query_text |-> Text1, status |-> "FINISHED",
                      statement_type |-> "INSERT", duration |-> 7, rows_produced |-> 0]
         [] OTHER -> [query_id |-> "q2", query_text |-> Text2, status |-> "FINISHED",
                      statement_type |-> "SELECT", duration |-> 2, rows_produced |-> 2]]

ExecIds == DOMAIN Exec

\* "statuses" of the request, lines 265-267
RequestedStatuses == {"FINISHED", "CANCELED"}

----------------------------------------------------------------------------
(* The tables, each computed as its statement computes it *)

\* lines 194-209 and 177-186: the fetch window of a run started at time t;
\* the log is a sequence of [StartTimestamp, EndTimestamp] in Id order
MaxEndTimestamp(lg) == Max({lg[i].EndTimestamp : i \in 1..Len(lg)})

\* offsets of the driver's local time from UTC the profiler may run under
UtcOffsets == {0, 1}

\* datetime.now() (lines 180, 195) and the datetime that collect() makes of a
\* stored timestamp (line 194): the driver's naive local time of an instant
LocalTime(instant) == instant + tz

\* lines 172-173: dt.replace(tzinfo=timezone.utc) reads the naive local time
\* as if it were UTC
ms_timestamp(dt) == dt

\* lines 177-186, called at time t
get_time_series_lookback(t) ==
    [start |-> ms_timestamp(LocalTime(t) - LookbackPeriod),
     end   |-> ms_timestamp(LocalTime(t))]

get_most_recent_history_from_log(lg, mode, t) ==
    IF lg = <<>> \/ mode # "auto"
    THEN get_time_series_lookback(t)
    ELSE [start |-> ms_timestamp(LocalTime(MaxEndTimestamp(lg))),
          end   |-> ms_timestamp(LocalTime(t))]

\* The service's answer (lines 285-335) for window w: the executions started
\* in (w.start, w.end].  The first request carries the status filter; the
\* page requests (lines 310-314) carry only the page token.
InWindow(up, w) == {e \in DOMAIN up : w.start < up[e] /\ up[e] <= w.end}

Unrequested(up) == {e \in DOMAIN up : Exec[e].status \notin RequestedStatuses}

Filtered(up, w) == {e \in InWindow(up, w) : Exec[e].status \in RequestedStatuses}

\* lines 345-357: INSERT INTO raw_query_history_statistics ... WHERE statement_type = 'SELECT'
InsertRawRows(r, batch) ==
    [e \in ExecIds |->
       IF e \in batch /\ Exec[e].statement_type = "SELECT" THEN r[e] + 1 ELSE r[e]]

\* the rows of raw_query_history_statistics, one per stored copy (the Id
\* column keeps copies apart)
RawRows(r) ==
    UNION {{[e |-> e, copy |-> c, query_id |-> Exec[e].query_id,
             duration |-> FInt(Exec[e].duration),
             rows_produced |-> FInt(Exec[e].rows_produced)] : c \in 1..r[e]} :
           e \in ExecIds}

\* lines 365-385: CREATE OR REPLACE TABLE query_summary_statistics
QuerySummaryStatistics(r) ==
    LET rows == {x \in RawRows(r) :
                    /\ Exec[x.e].status \in {"FINISHED", "CANCELED"}
                    /\ Exec[x.e].statement_type = "SELECT"}
        of(q) == {x \in rows : x.query_id = q}
    IN  {[query_id            |-> q,
          AverageQueryDuration |-> SqlAvg(of(q), "duration"),
          AverageRowsProduced  |-> SqlAvg(of(q), "rows_produced"),
          TotalQueryRuns       |-> FInt(Cardinality(of(q))),
          DurationTimesRuns    |-> FMul(SqlAvg(of(q), "duration"), FInt(Cardinality(of(q))))] :
         q \in {x.query_id : x \in rows}}

\* lines 388-393: SELECT DISTINCT query_id, query_text, with the UDF's column
NewParsed(r) ==
    {[query_id |-> Exec[e].query_id, query_text |-> Exec[e].query_text,
      profiled_columns |-> getParsedFilteredColumnsinSQL(Parser(Exec[e].query_text))] :
       e \in {x \in ExecIds : r[x] > 0}}

Sources(src, t) == {s \in src : s.query_id = t.query_id}

\* Delta refuses a MERGE in which several source rows match one target row
MergeAmbiguous(target, src) == \E t \in target : Cardinality(Sources(src, t)) > 1

\* lines 394-401: WHEN MATCHED THEN UPDATE SET target.query_text = source.query_text
MergeMatched(t, s) == [t EXCEPT !.query_text = s.query_text]

\* lines 394-401: MERGE INTO parsed_distinct_queries
MergeParsed(target, src) ==
    {IF Sources(src, t) = {} THEN t
     ELSE MergeMatched(t, CHOOSE s \in Sources(src, t) : TRUE) : t \in target}
    \cup {s \in src : \A t \in target : t.query_id # s.query_id}

\* the row of hist a LEFT JOIN pairs with query_id q, all NULL when there is none
Hist(st, q) ==
    IF \E h \in st : h.query_id = q
    THEN CHOOSE h \in st : h.query_id = q
    ELSE [query_id |-> "NULL", AverageQueryDuration |-> FNull,
          AverageRowsProduced |-> FNull, TotalQueryRuns |-> FNull,
          DurationTimesRuns |-> FNull]

\* lines 426-428: the three flag UDFs on concat(TableName, ".", ColumnName)
UseFlags(p, TableName, ColumnName) ==
    [isUsedInJoin   |-> checkIfJoinColumn(p, Qualified(TableName, ColumnName)),
     isUsedInFilter |-> checkIfFilterColumn(p, Qualified(TableName, ColumnName)),
     isUsedInGroup  |-> checkIfGroupColumn(p, Qualified(TableName, ColumnName))]

\* one row of step_2 with its occurrence count and flags (lines 413-428)
UsageRow(c, p, h) ==
    LET TableName  == Piece0(c)
        ColumnName == Piece1(c)
        flags      == UseFlags(Parser(p.query_text), TableName, ColumnName)
    IN  [TableName  |-> TableName,
         ColumnName |-> ColumnName,
         query_text |-> p.query_text,
         query_id   |-> h.query_id,
         AverageQueryDuration |-> h.AverageQueryDuration,
         AverageRowsProduced  |-> h.AverageRowsProduced,
         TotalQueryRuns       |-> h.TotalQueryRuns,
         DurationTimesRuns    |-> h.DurationTimesRuns,
         NumberOfColumnOccurrences |-> NumberOfColumnOccurrences(p.query_text, ColumnName),
         isUsedInJoin   |-> flags.isUsedInJoin,
         isUsedInFilter |-> flags.isUsedInFilter,
         isUsedInGroup  |-> flags.isUsedInGroup]

\* lines 405-436: CREATE OR REPLACE TABLE query_column_statistics
QueryColumnStatistics(pq, st) ==
    UNION {{UsageRow(c, p, Hist(st, p.query_id)) : c \in p.profiled_columns} : p \in pq}

\* one group of lines 447-465
SummaryRow(rows, t, c) ==
    LET g == {r \in rows : r.TableName = t /\ r.ColumnName = c}
    IN  [TableName  |-> t,
         ColumnName |-> c,
         isUsedInJoin   |-> Max({r.isUsedInJoin : r \in g}),
         isUsedInFilter |-> Max({r.isUsedInFilter : r \in g}),
         isUsedInGroup  |-> Max({r.isUsedInGroup : r \in g}),
         NumberOfQueriesUsedInJoin   |-> SumInt(g, "isUsedInJoin"),
         NumberOfQueriesUsedInFilter |-> SumInt(g, "isUsedInFilter"),
         NumberOfQueriesUsedInGroup  |-> SumInt(g, "isUsedInGroup"),
         QueryReferenceCount |-> FInt(Cardinality({r.query_id : r \in g} \ {"NULL"})),
         RawTotalRuntime     |-> SqlSum(g, "DurationTimesRuns"),
         AvgQueryDuration    |-> SqlAvg(g, "AverageQueryDuration"),
         TotalColumnOccurrencesForAllQueries |-> FInt(SumInt(g, "NumberOfColumnOccurrences")),
         AvgColumnOccurrencesInQueryies |->
             FDiv(FInt(SumInt(g, "NumberOfColumnOccurrences")), FInt(Cardinality(g)))]

\* lines 440-467: CREATE OR REPLACE TABLE read_statistics_column_level_summary
ColumnLevelSummary(cs) ==
    LET test_q == {r \in cs : Len(r.ColumnName) >= 1}
    IN  {SummaryRow(test_q, k[1], k[2]) :
           k \in {<<r.TableName, r.ColumnName>> : r \in test_q}}

\* lines 473-477
columns_to_scale ==
    {"QueryReferenceCount", "RawTotalRuntime", "AvgQueryDuration",
     "TotalColumnOccurrencesForAllQueries", "AvgColumnOccurrencesInQueryies"}

\* lines 484-487: the min and max of field f within table t
Boundary(sm, t, f) ==
    LET vals == {r[f] : r \in {x \in sm : x.TableName = t}}
    IN  [min |-> FMin(vals), max |-> FMax(vals)]

\* lines 492-496 dividing by max instead of max - min
ScaleByMax(v, b) == Coalesce0(FDiv(FSub(v, b.min), b.max))

\* lines 492-496: F.coalesce((col - min) / (max - min), F.lit(0))
Scale(v, b) == Coalesce0(FDiv(FSub(v, b.min), FSub(b.max, b.min)))

\* lines 489-505: CREATE OR REPLACE TABLE read_statistics_scaled_results,
\* the columns of selectExpr (line 497)
ScaledRow(sm, r) ==
    [TableName  |-> r.TableName,
     ColumnName |-> r.ColumnName,
     isUsedInJoin   |-> r.isUsedInJoin,
     isUsedInFilter |-> r.isUsedInFilter,
     isUsedInGroup  |-> r.isUsedInGroup,
     NumberOfQueriesUsedInJoin   |-> r.NumberOfQueriesUsedInJoin,
     NumberOfQueriesUsedInFilter |-> r.NumberOfQueriesUsedInFilter,
     NumberOfQueriesUsedInGroup  |-> r.NumberOfQueriesUsedInGroup,
     QueryReferenceCount |-> r.QueryReferenceCount,
     RawTotalRuntime     |-> r.RawTotalRuntime,
     AvgQueryDuration    |-> r.AvgQueryDuration,
     TotalColumnOccurrencesForAllQueries |-> r.TotalColumnOccurrencesForAllQueries,
     AvgColumnOccurrencesInQueryies      |-> r.AvgColumnOccurrencesInQueryies,
     QueryReferenceCountScaled |->
         Scale(r.QueryReferenceCount, Boundary(sm, r.TableName, "QueryReferenceCount")),
     RawTotalRuntimeScaled |->
         Scale(r.RawTotalRuntime, Boundary(sm, r.TableName, "RawTotalRuntime")),
     AvgQueryDurationScaled |->
         Scale(r.AvgQueryDuration, Boundary(sm, r.TableName, "AvgQueryDuration")),
     TotalColumnOccurrencesForAllQueriesScaled |->
         Scale(r.TotalColumnOccurrencesForAllQueries,
               Boundary(sm, r.TableName, "TotalColumnOccurrencesForAllQueries")),
     AvgColumnOccurrencesInQueriesScaled |->
         Scale(r.AvgColumnOccurrencesInQueryies,
               Boundary(sm, r.TableName, "AvgColumnOccurrencesInQueryies"))]

\* lines 487-489 keeping only the tables whose columns differ in occurrences
ScaledResultsOfSpreadTables(sm) ==
    {ScaledRow(sm, r) :
       r \in {x \in sm :
                LET b == Boundary(sm, x.TableName, "TotalColumnOccurrencesForAllQueries")
                IN  b.min # b.max}}

ScaledResults(sm) == {ScaledRow(sm, r) : r \in sm}

----------------------------------------------------------------------------
(* The profiler *)

NoExecutions == [e \in {} |-> 0]

NoRun == [mode |-> "none", start |-> 0, end |-> 0, batch |-> {}]

\* the locals of a run are gone once the method has returned or raised
Ended(mode) == NoRun

NoStatement ==
    [outcome |-> "none", tables |-> {}, where |-> NoClause, join |-> NoClause,
     group_by |-> NoClause, msg |-> <<>>]

HarnessOff == [stage |-> "off", refs |-> {}, rows |-> {}]

\* merged: whether the run has reached its MERGE ("no", "ok", "refused")
NoSnapshot == [summary |-> {}, scaled |-> {}, upstream |-> NoExecutions, rerun |-> FALSE,
               merged |-> "no"]

Modes == {"auto", "manual"}

Running == {"insert_raw", "insert_log", "summary_stats", "merge", "column_stats",
            "column_summary", "scale"}

\* lines 15-60: the constructor creates the empty tables
InitPipe ==
    /\ now = 0
    /\ upstream = NoExecutions
    /\ raw = [e \in ExecIds |-> 0]
    /\ log = <<>>
    /\ stats = {}
    /\ parsed = {}
    /\ colstats = {}
    /\ summary = {}
    /\ scaled = {}
    /\ pc = "idle"
    /\ run = NoRun
    /\ pre = NoSnapshot
    /\ nruns = 0

Init == InitPipe /\ tz \in UtcOffsets /\ sql = NoStatement /\ out = HarnessOff

\* The warehouse runs one more query; the clock moves with it, so that
\* executions are told apart by their start times.  What was remembered of
\* the last run is dropped: the upstream is no longer the one it read.
Execute(e) ==
    /\ pc \notin Running
    /\ e = Cardinality(DOMAIN upstream) + 1
    /\ now' = now + 1
    /\ upstream' = [x \in DOMAIN upstream \cup {e} |-> IF x = e THEN now + 1 ELSE upstream[x]]
    /\ pc' = "idle"
    /\ run' = NoRun
    /\ pre' = NoSnapshot
    /\ UNCHANGED <<raw, log, stats, parsed, colstats, summary, scaled, nruns, sql, out, tz>>

\* what a run remembers of the state it started from
Snapshot == [summary |-> summary, scaled |-> scaled, upstream |-> upstream,
             rerun |-> (pc = "done" /\ pre.upstream = upstream), merged |-> "no"]

\* lines 243-341: the window, the requests and the temporary view; later is
\* what the page requests brought beyond the filtered first answer.
\* spark.createDataFrame raises on an empty list (line 340).
StartRun(mode, later) ==
    LET w     == get_most_recent_history_from_log(log, mode, now)
        batch == Filtered(upstream, w) \cup later
    IN  /\ pc \notin Running
        /\ nruns < MaxRuns
        /\ later \subseteq InWindow(upstream, w)
        /\ nruns' = nruns + 1
        /\ pre' = Snapshot
        /\ run' = IF batch = {} THEN Ended(mode)
                  ELSE [mode |-> mode, start |-> w.start, end |-> w.end, batch |-> batch]
        /\ pc' = IF batch = {} THEN "failed" ELSE "insert_raw"
        /\ UNCHANGED <<now, upstream, raw, log, stats, parsed, colstats, summary,
                       scaled, sql, out, tz>>

\* line 285 or 319: the request raises
FetchFails(mode) ==
    LET w == get_most_recent_history_from_log(log, mode, now)
    IN  /\ pc \notin Running
        /\ nruns < MaxRuns
        /\ nruns' = nruns + 1
        /\ pre' = Snapshot
        /\ run' = Ended(mode)
        /\ pc' = "failed"
        /\ UNCHANGED <<now, upstream, raw, log, stats, parsed, colstats, summary,
                       scaled, sql, out, tz>>

\* lines 345-358
InsertRaw ==
    /\ pc = "insert_raw"
    /\ raw' = InsertRawRows(raw, run.batch)
    /\ pc' = "insert_log"
    /\ UNCHANGED <<now, upstream, log, stats, parsed, colstats, summary, scaled, run,
                   pre, nruns, sql, out, tz>>

\* lines 361 and 213-224
insert_query_history_delta_log ==
    /\ pc = "insert_log"
    /\ log' = Append(log, [StartTimestamp |-> run.start, EndTimestamp |-> run.end])
    /\ pc' = "summary_stats"
    /\ UNCHANGED <<now, upstream, raw, stats, parsed, colstats, summary, scaled, run,
                   pre, nruns, sql, out, tz>>

\* lines 365-385
BuildSummaryStatistics ==
    /\ pc = "summary_stats"
    /\ stats' = QuerySummaryStatistics(raw)
    /\ pc' = "merge"
    /\ UNCHANGED <<now, upstream, raw, log, parsed, colstats, summary, scaled, run,
                   pre, nruns, sql, out, tz>>

\* lines 388-401; an ambiguous MERGE raises and changes nothing
MergeIntoParsed ==
    /\ pc = "merge"
    /\ IF MergeAmbiguous(parsed, NewParsed(raw))
       THEN /\ pc' = "failed"
            /\ parsed' = parsed
            /\ run' = Ended(run.mode)
            /\ pre' = [pre EXCEPT !.merged = "refused"]
       ELSE /\ pc' = "column_stats"
            /\ parsed' = MergeParsed(parsed, NewParsed(raw))
            /\ run' = run
            /\ pre' = [pre EXCEPT !.merged = "ok"]
    /\ UNCHANGED <<now, upstream, raw, log, stats, colstats, summary, scaled,
                   nruns, sql, out, tz>>

\* lines 405-436
BuildColumnStatistics ==
    /\ pc = "column_stats"
    /\ colstats' = QueryColumnStatistics(parsed, stats)
    /\ pc' = "column_summary"
    /\ UNCHANGED <<now, upstream, raw, log, stats, parsed, summary, scaled, run,
                   pre, nruns, sql, out, tz>>

\* lines 440-467
BuildColumnSummary ==
    /\ pc = "column_summary"
    /\ summary' = ColumnLevelSummary(colstats)
    /\ pc' = "scale"
    /\ UNCHANGED <<now, upstream, raw, log, stats, parsed, colstats, scaled, run,
                   pre, nruns, sql, out, tz>>

\* lines 471-511
BuildScaledResults ==
    /\ pc = "scale"
    /\ scaled' = ScaledResults(summary)
    /\ pc' = "done"
    /\ run' = Ended(run.mode)
    /\ UNCHANGED <<now, upstream, raw, log, stats, parsed, colstats, summary,
                   pre, nruns, sql, out, tz>>

\* lines 513-514: a statement raises (the cluster is lost, the run is
\* cancelled) and the exception leaves the method
Fail ==
    /\ pc \in Running
    /\ pc' = "failed"
    /\ run' = Ended(run.mode)
    /\ UNCHANGED <<now, upstream, raw, log, stats, parsed, colstats, summary, scaled,
                   pre, nruns, sql, out, tz>>

\* lines 228-239: TRUNCATE TABLE for every table of the database
truncate_delta_optimizer_results ==
    /\ pc \in {"done", "failed"}
    /\ raw' = [e \in ExecIds |-> 0]
    /\ log' = <<>>
    /\ stats' = {}
    /\ parsed' = {}
    /\ colstats' = {}
    /\ summary' = {}
    /\ scaled' = {}
    /\ pc' = "idle"
    /\ run' = NoRun
    /\ pre' = NoSnapshot
    /\ UNCHANGED <<now, upstream, nruns, sql, out, tz>>

----------------------------------------------------------------------------
(* The extractor and the flag UDFs on their own: every statement the parser *)
(* can report over a few tables and column tokens                           *)

TableA == <<"a">>

HarnessTables == {ta, tb, TableA}

\* an unqualified column, columns qualified by a table, by a piece of a table
\* name, by nothing, by a schema and a table, and a one-character column
HarnessTokens ==
    {xx, Qualified(ta, xx), Qualified(TableA, xx), <<".">> \o xx,
     Qualified(<<"d">>, Qualified(ta, xx)), Qualified(tb, <<"x">>)}

HarnessClauses ==
    {NoClause} \cup {Clause(S) : S \in {T \in SUBSET HarnessTokens : Cardinality(T) <= MaxTokens}}

HarnessStatements ==
    [outcome : {"ok"}, tables : SUBSET HarnessTables, where : HarnessClauses,
     join : HarnessClauses, group_by : HarnessClauses, msg : {<<>>}]
    \cup [outcome : {"nodict"}, tables : SUBSET HarnessTables, where : {NoClause},
          join : {NoClause}, group_by : {NoClause}, msg : {<<>>}]
    \cup [outcome : {"raise"}, tables : {{}}, where : {NoClause},
          join : {NoClause}, group_by : {NoClause}, msg : {<<"n", "o">>, <<>>}]

InitHarness ==
    /\ InitPipe
    /\ tz = 0
    /\ sql \in HarnessStatements
    /\ out = [stage |-> "in", refs |-> {}, rows |-> {}]

\* lines 390-391: the UDF on one statement
HarnessExtract ==
    /\ out.stage = "in"
    /\ out' = [stage |-> "extracted", refs |-> getParsedFilteredColumnsinSQL(sql), rows |-> {}]
    /\ UNCHANGED <<sql, now, upstream, raw, log, stats, parsed, colstats, summary,
                   scaled, pc, run, pre, nruns, tz>>

\* lines 413-428: the split of each entry and its three flags
HarnessFlag ==
    /\ out.stage = "extracted"
    /\ out' = [out EXCEPT !.stage = "flagged",
                          !.rows = {[TableName |-> Piece0(c), ColumnName |-> Piece1(c),
                                     flags |-> UseFlags(sql, Piece0(c), Piece1(c))] :
                                    c \in out.refs}]
    /\ UNCHANGED <<sql, now, upstream, raw, log, stats, parsed, colstats, summary,
                   scaled, pc, run, pre, nruns, tz>>

NextHarness == HarnessExtract \/ HarnessFlag

SpecHarness == InitHarness /\ [][NextHarness]_vars

Next ==
    \/ \E e \in ExecIds : Execute(e)
    \/ \E mode \in Modes : \E later \in SUBSET Unrequested(upstream) : StartRun(mode, later)
    \/ \E mode \in Modes : FetchFails(mode)
    \/ InsertRaw
    \/ insert_query_history_delta_log
    \/ BuildSummaryStatistics
    \/ MergeIntoParsed
    \/ BuildColumnStatistics
    \/ BuildColumnSummary
    \/ BuildScaledResults
    \/ Fail
    \/ truncate_delta_optimizer_results

Spec == Init /\ [][Next]_vars

----------------------------------------------------------------------------
(* Claims *)

AfterMerge == pre.merged # "no"

\* the text of the latest stored execution of query_id q
LatestText(q) ==
    Exec[Max({e \in ExecIds : raw[e] > 0 /\ Exec[e].query_id = q})].query_text

RowsOf(q) == {t \in parsed : t.query_id = q}

\* C1: a run that failed left both published tables as they were when it began
C1_FailedRunLeavesPublishedTables ==
    pc = "failed" => summary = pre.summary /\ scaled = pre.scaled

\* C2: a run repeated on an unchanged upstream history ends with the same
\* Column Summary and Scaled Column Summary as the run before it
C2_RerunGivesIdenticalTables ==
    pc = "done" /\ pre.rerun => summary = pre.summary /\ scaled = pre.scaled

\* C3: once a run has merged, the stored row of a query_id holds the newest
\* text ingested for it and the references extracted from that text
C3_ReparsedRowFollowsNewText ==
    AfterMerge =>
        \A t \in parsed :
            RowsOf(t.query_id) = {t} =>
                /\ t.query_text = LatestText(t.query_id)
                /\ t.profiled_columns = getParsedFilteredColumnsinSQL(Parser(t.query_text))

\* C4: a query whose text the parser raises on has no reference, no usage row
\* and no Column Summary row
C4_UnparsableContributesNothing ==
    /\ \A t \in parsed :
          Parser(t.query_text).outcome = "raise" => t.profiled_columns = {}
    /\ \A r \in colstats : Parser(r.query_text).outcome # "raise"
    /\ \A t \in parsed : \A c \in t.profiled_columns : \A r \in summary :
          Parser(t.query_text).outcome = "raise" =>
              <<r.TableName, r.ColumnName>> # <<Piece0(c), Piece1(c)>>

\* C5: the table of every usage row is a table the parser found in that row's
\* query, and every Column Summary table is a table of some statement
C5_TablesComeFromTheStatement ==
    /\ \A r \in colstats : r.TableName \in Parser(r.query_text).tables
    /\ \A r \in summary : \E text \in Texts : r.TableName \in Parser(text).tables

\* C6: the Column Summary of a finished run is the one computed from the usage
\* rows of queries that have execution statistics
C6_UnmatchedQueryContributesNothing ==
    pc = "done" => summary = ColumnLevelSummary({r \in colstats : r.query_id # "NULL"})

\* sub occurs somewhere in s
IsSubstring(sub, s) ==
    \E i \in 0..(Len(s) - Len(sub)) : SubSeq(s, i + 1, i + Len(sub)) = sub

HarnessPairs == sql.tables \X FlattedFinalCols(sql)

Unqualified(st) == RIndexDot(st) = 0

\* C7, as the specification words it: the extractor's entries are the
\* column parts of the tokens, each under every table that the token's table
\* part is a substring of, or under every table when the table part is empty
C7_AttributionByTablePart ==
    out.stage # "in" /\ sql.outcome = "ok" =>
        out.refs = {Format(y[1], ColumnVal(y[2])) :
                      y \in {x \in HarnessPairs :
                               \/ TableVal(x[2]) # <<>> /\ IsSubstring(TableVal(x[2]), x[1])
                               \/ TableVal(x[2]) = <<>>}}

\* C7, amended: the extractor's entries are the column parts longer than one
\* character, each under every table whose name occurs in the whole token, or
\* under every table when the token has no table part
C7_AttributionByTableInToken ==
    out.stage # "in" /\ sql.outcome = "ok" =>
        out.refs = {Format(y[1], ColumnVal(y[2])) :
                      y \in {x \in HarnessPairs :
                               /\ Len(ColumnVal(x[2])) > 1
                               /\ IsSubstring(x[1], x[2]) \/ TableVal(x[2]) = <<>>}}

\* a column qualified by one of two tables has been attributed to that table only
C7_Witness ==
    /\ out.stage = "extracted"
    /\ sql.outcome = "ok"
    /\ sql.tables = {ta, tb}
    /\ sql.where = Clause({Qualified(ta, xx)})
    /\ sql.join = Clause({Qualified(TableA, xx)})
    /\ sql.group_by = NoClause
    /\ out.refs = {Format(ta, xx)}

\* C8: an unqualified column of a WHERE or GROUP BY clause has one usage row
\* for each table of the statement and for no other table, each with the flag
\* of its clause set
C8_UnqualifiedColumnFlaggedPerTable ==
    out.stage = "flagged" /\ sql.outcome = "ok" =>
        \A c \in {st \in FlattedFinalCols(sql) : Unqualified(st) /\ Len(st) > 1} :
            /\ c \in sql.where.cols \cup sql.group_by.cols =>
                   {r.TableName : r \in {x \in out.rows : x.ColumnName = c}} = sql.tables
            /\ c \in sql.where.cols =>
                   \A r \in out.rows : r.ColumnName = c => r.flags.isUsedInFilter = 1
            /\ c \in sql.group_by.cols =>
                   \A r \in out.rows : r.ColumnName = c => r.flags.isUsedInGroup = 1

\* C9: the raw store holds no execution twice, and the run count of each
\* query after a finished run is the number of its stored executions
C9_OneRecordPerExecution ==
    /\ \A e \in ExecIds : raw[e] <= 1
    /\ pc = "done" =>
          \A h \in stats :
              h.TotalQueryRuns =
                  FInt(Cardinality({e \in ExecIds : raw[e] > 0 /\ Exec[e].query_id = h.query_id}))

\* lines 492-496: the scaled column of each scaled field
ScaledField(f) ==
    CASE f = "QueryReferenceCount" -> "QueryReferenceCountScaled"
      [] f = "RawTotalRuntime" -> "RawTotalRuntimeScaled"
      [] f = "AvgQueryDuration" -> "AvgQueryDurationScaled"
      [] f = "TotalColumnOccurrencesForAllQueries" -> "TotalColumnOccurrencesForAllQueriesScaled"
      [] OTHER -> "AvgColumnOccurrencesInQueriesScaled"

PartitionValues(t, f) == {r[f] : r \in {x \in scaled : x.TableName = t}}

\* C10: every scaled value is a number within [0, 1]; it is 0 throughout a
\* partition whose minimum and maximum agree, and 1 on the row holding the
\* maximum of a partition in which they differ
C10_ScaledValuesInUnitInterval ==
    \A r \in scaled : \A f \in columns_to_scale :
        LET v  == r[ScaledField(f)]
            lo == FMin(PartitionValues(r.TableName, f))
            hi == FMax(PartitionValues(r.TableName, f))
        IN  /\ ~IsNull(v)
            /\ FLe(FInt(0), v)
            /\ FLe(v, FInt(1))
            /\ lo = hi => v = FInt(0)
            /\ lo # hi /\ r[f] = hi => v = FInt(1)

\* a table with three columns whose average durations differ: one scaled to
\* 0, one strictly between, one to 1; and a field that is constant in a table
C10_Witness ==
    /\ \E r \in scaled : r.AvgQueryDurationScaled = FInt(1)
    /\ \E r \in scaled : r.AvgQueryDurationScaled = Frac(1, 2)
    /\ \E r \in scaled :
          /\ r.QueryReferenceCountScaled = FInt(0)
          /\ FMin(PartitionValues(r.TableName, "QueryReferenceCount"))
               = FMax(PartitionValues(r.TableName, "QueryReferenceCount"))

\* the positions of text at which name stands
OccurrencePositions(text, name) ==
    {i \in 1..(Len(text) - Len(name) + 1) : SubSeq(text, i, i + Len(name) - 1) = name}

\* the most occurrences of name in text that can be taken without two of
\* them sharing a character
DisjointOccurrences(text, name) ==
    Max({Cardinality(P) :
           P \in {Q \in SUBSET OccurrencePositions(text, name) :
                    \A i \in Q : \A j \in Q : i < j => i + Len(name) <= j}})

NamedUsageRows == {r \in colstats : r.ColumnName # <<>>}

\* C11, as the specification words it: the occurrence count of a usage row is
\* the number of occurrences of the column name in the query text minus one,
\* held at 0 when the name is absent; so a name occurring once counts 0
C11_OccurrencesMinusOne ==
    \A r \in NamedUsageRows :
        LET n == Cardinality(OccurrencePositions(r.query_text, r.ColumnName))
        IN  /\ r.NumberOfColumnOccurrences = Max({0, n - 1})
            /\ n = 1 => r.NumberOfColumnOccurrences = 0

\* C11, amended: the occurrence count of a usage row with a column name is the
\* number of occurrences of the name in the query text that share no
\* character, with nothing subtracted; it is never negative, it is 0 exactly
\* when the name is absent, and a name occurring once counts 1
C11_OccurrencesCounted ==
    \A r \in NamedUsageRows :
        LET n == Cardinality(OccurrencePositions(r.query_text, r.ColumnName))
        IN  /\ r.NumberOfColumnOccurrences = DisjointOccurrences(r.query_text, r.ColumnName)
            /\ r.NumberOfColumnOccurrences >= 0
            /\ n = 0 <=> r.NumberOfColumnOccurrences = 0
            /\ n = 1 => r.NumberOfColumnOccurrences = 1

\* usage rows of a name standing once, of one standing twice, of one whose two
\* occurrences overlap and of one that is absent from its text
C11_Witness ==
    /\ \E r \in colstats : r.ColumnName = yy /\ r.query_text = Text1
                           /\ r.NumberOfColumnOccurrences = 1
    /\ \E r \in colstats : r.ColumnName = xx /\ r.NumberOfColumnOccurrences = 2
    /\ \E r \in colstats : /\ r.ColumnName = zz
                           /\ Cardinality(OccurrencePositions(r.query_text, zz)) = 2
                           /\ r.NumberOfColumnOccurrences = 1
    /\ \E r \in colstats : /\ r.ColumnName # <<>>
                           /\ OccurrencePositions(r.query_text, r.ColumnName) = {}
                           /\ r.NumberOfColumnOccurrences = 0

\* the thirteen columns of read_statistics_column_level_summary
SummaryFields ==
    {"TableName", "ColumnName", "isUsedInJoin", "isUsedInFilter", "isUsedInGroup",
     "NumberOfQueriesUsedInJoin", "NumberOfQueriesUsedInFilter",
     "NumberOfQueriesUsedInGroup", "QueryReferenceCount", "RawTotalRuntime",
     "AvgQueryDuration", "TotalColumnOccurrencesForAllQueries",
     "AvgColumnOccurrencesInQueryies"}

ScaledFields == {ScaledField(f) : f \in columns_to_scale}

\* a scaled row cut down to the columns of the summary
SummaryPart(r) == [f \in SummaryFields |-> r[f]]

\* C12: when the scaled table has been written, it holds one row for every
\* (table, column) row of the summary and no other, and each row carries its
\* summary row's thirteen values unchanged, plus the five scaled fields
C12_ScalingKeepsRowsAndFields ==
    pc = "done" =>
        /\ {SummaryPart(r) : r \in scaled} = summary
        /\ \A r \in scaled : \A q \in scaled :
              r.TableName = q.TableName /\ r.ColumnName = q.ColumnName => r = q
        /\ Cardinality(scaled) = Cardinality(summary)
        /\ \A r \in scaled : DOMAIN r = SummaryFields \cup ScaledFields
        /\ \A r \in summary : DOMAIN r = SummaryFields
        /\ Cardinality(ScaledFields) = 5

\* a finished run over several tables, one of them with a single column and
\* one with columns that scale to different values
C12_Witness ==
    /\ pc = "done"
    /\ Cardinality({r.TableName : r \in summary}) >= 3
    /\ \E r \in summary : {q \in summary : q.TableName = r.TableName} = {r}
    /\ \E r \in scaled : \E q \in scaled :
          /\ r.TableName = q.TableName
          /\ r.TotalColumnOccurrencesForAllQueriesScaled
               # q.TotalColumnOccurrencesForAllQueriesScaled

\* the fetch window an entry of the log records
LoggedWindow(i) == [start |-> log[i].StartTimestamp, end |-> log[i].EndTimestamp]

\* the SELECT executions with a requested status that started in window w
RecordsOf(w) == {e \in Filtered(upstream, w) : Exec[e].statement_type = "SELECT"}

\* every execution of every logged window is in the raw store
LoggedWindowsStored ==
    \A i \in 1..Len(log) : \A e \in RecordsOf(LoggedWindow(i)) : raw[e] >= 1

\* a step that adds an entry to the log: the records the run fetched are
\* stored already, and an auto run that found the log non-empty logs a window
\* starting at the greatest EndTimestamp of the log, which is where the
\* window logged last ended
LogEntryFollowsLog ==
    Len(log') = Len(log) + 1 =>
        /\ \A e \in run.batch : Exec[e].statement_type = "SELECT" => raw[e] >= 1
        /\ run.mode = "auto" /\ log # <<>> =>
              /\ log'[Len(log')].StartTimestamp = MaxEndTimestamp(log)
              /\ log'[Len(log')].StartTimestamp = log[Len(log)].EndTimestamp

\* C13: a window is logged only once its records are stored, the window of an
\* auto run that finds entries in the log starts at the greatest logged
\* EndTimestamp, so each logged window of an auto run starts where the window
\* logged before it ended, and no logged window holds an execution that was
\* not stored
C13_WatermarkFollowsLog == []LoggedWindowsStored /\ [][LogEntryFollowsLog]_vars

====
